---- MODULE Spec2Model ----
(***************************************************************************)
(* A model of src/run.ts of golangci-lint-action: the preparation of the   *)
(* environment (prepareEnv, fetchPatch), the assembly of the command line  *)
(* and the execution of the tool (runLint), the interpretation of its      *)
(* output (printOutput, parseOutput, hasFailingIssues) and the publishing  *)
(* of annotations (annotateLintIssues).                                    *)
(*                                                                         *)
(* JavaScript runs every callback to completion: an action of this model   *)
(* is one such segment, from the settling of a promise the code awaits to  *)
(* the next await that has to wait for the outside world.                  *)
(***************************************************************************)
EXTENDS Integers, Sequences, FiniteSets, TLC

\* ------------------------------------------------------------------ bounds

\* The longest Issues array of a report in the specification of the whole run.
MaxRawIssues == 2

\* The longest Issues array in the specification of the annotation batches.
MaxIssues == 101

\* --------------------------------------------------------- text of `args`

\* An argument of the `args` input: `dashes` leading dashes, a name that does
\* not start with a dash and holds no `=`, and `=value` when eq is TRUE.
Arg(dashes, name, eq, value) ==
  [dashes |-> dashes, name |-> name, eq |-> eq, value |-> value]

\* arg.split(`=`)[0]: the text before the first `=`.
SplitEqHead(arg) == [dashes |-> arg.dashes, name |-> arg.name]

\* arg.startsWith(`-`)
StartsWithDash(head) == head.dashes >= 1

\* A variant that strips every leading dash.
ReplaceAllDashes(head) == [dashes |-> 0, name |-> head.name]

\* arg.replace(`-`, ``) with a string pattern: the FIRST dash only is removed.
\* (Only applied to texts that start with a dash.)
ReplaceFirstDash(head) == [dashes |-> head.dashes - 1, name |-> head.name]

\* The set userArgNames that runLint builds from the user's args.
UserArgNames(args) ==
  { ReplaceFirstDash(SplitEqHead(args[i])) :
      i \in { j \in 1..Len(args) : StartsWithDash(SplitEqHead(args[j])) } }

\* userArgNames.has(name): the set holds the text exactly.
Has(names, name) == [dashes |-> 0, name |-> name] \in names

\* The values of `args` the specification of the whole run draws from.
UserArgsChoices ==
  { <<>>,
    << Arg(2, "out-format", TRUE, "xml") >>,
    << Arg(1, "out-format", TRUE, "xml") >>,
    << Arg(2, "new", FALSE, "") >>,
    << Arg(2, "timeout", TRUE, "5m"), Arg(1, "new-from-patch", TRUE, "my.patch") >>,
    << Arg(2, "path-prefix", TRUE, "sub") >> }

\* ------------------------------------------------------------- severities

\* enum LintSeverity { notice, warning, failure }: the ordinal of a name.
LintSeverity(name) ==
  CASE name = "notice"  -> 0
    [] name = "warning" -> 1
    [] name = "failure" -> 2
    [] OTHER            -> -1   \* undefined: compares false with every number

\* Object.values(LintSeverity) of a numeric enum: the reverse mapping's names
\* (integer keys come first) and then the ordinals, which are numbers and so
\* never strictly equal a string.
LintSeverityValues ==
  << [type |-> "string", value |-> "notice"],
     [type |-> "string", value |-> "warning"],
     [type |-> "string", value |-> "failure"],
     [type |-> "number", value |-> "0"],
     [type |-> "number", value |-> "1"],
     [type |-> "number", value |-> "2"] >>

\* Array.prototype.indexOf of a string: zero-based, -1 when absent.
IndexOf(values, str) ==
  LET hits == { i \in 1..Len(values) : values[i] = [type |-> "string", value |-> str] }
  IN  IF hits = {} THEN -1
      ELSE (CHOOSE i \in hits : \A j \in hits : i <= j) - 1

DefaultFailureSeverity == LintSeverity("notice")

\* String.prototype.toLowerCase on the labels the model uses.
ToLowerCase(str) ==
  CASE str = "Warning" -> "warning"
    [] str = "FAILURE" -> "failure"
    [] str = "Ignore"  -> "ignore"
    [] OTHER           -> str

\* The severityMap of parseOutput; "" stands for undefined (no such key).
SeverityMap(label) ==
  CASE label = "info"     -> "notice"
    [] label = "notice"   -> "notice"
    [] label = "minor"    -> "warning"
    [] label = "warning"  -> "warning"
    [] label = "error"    -> "failure"
    [] label = "major"    -> "failure"
    [] label = "critical" -> "failure"
    [] label = "blocker"  -> "failure"
    [] label = "failure"  -> "failure"
    [] OTHER              -> ""

\* ------------------------------------------------------------ tool output

\* The standard output of a subprocess: empty, text that is not JSON, or a
\* JSON object that may hold a `Report` and an `Issues` array. An issue is
\* [id, Severity]: id stands for its text, linter and position.
Stdout(text, report, hasIssues, issues) ==
  [text |-> text, Report |-> report, hasIssues |-> hasIssues, Issues |-> issues]

EmptyStdout == Stdout("", FALSE, FALSE, <<>>)

RawSeverities == {"ignore", "failure"}

\* The Issues arrays of at most n issues; the i-th issue has id i.
IssueLists(n) ==
  UNION { { [i \in 1..k |-> [id |-> i, Severity |-> sev[i]]] :
              sev \in [1..k -> RawSeverities] } : k \in 0..n }

\* lintOutput of printOutput while undefined.
Undefined == [defined |-> FALSE, Issues |-> <<>>]

\* A filter that drops the issues to ignore and retains the others.
FilterIssuesNotIgnored(issues) == SelectSeq(issues, LAMBDA issue : issue.Severity # "ignore")

\* The filter of parseOutput: the issues whose Severity is exactly `ignore`.
FilterIssues(issues) == SelectSeq(issues, LAMBDA issue : issue.Severity = "ignore")

\* The map of parseOutput: the Severity becomes the severityMap's entry for
\* its lower case, or `failure` when the map has none.
MapIssue(issue) ==
  LET Severity == ToLowerCase(issue.Severity)
  IN  [issue EXCEPT !.Severity =
         IF SeverityMap(Severity) # "" THEN SeverityMap(Severity) ELSE "failure"]

\* A parser that accepts an object without `Report`.
ParseOutputNoReportCheck(json) ==
  IF json.text # "json" \/ ~json.hasIssues
  THEN [threw |-> TRUE, defined |-> FALSE, Issues |-> <<>>]
  ELSE [threw |-> FALSE, defined |-> TRUE,
        Issues |-> [i \in 1..Len(FilterIssues(json.Issues)) |->
                      MapIssue(FilterIssues(json.Issues)[i])]]

\* parseOutput: throws (threw) when JSON.parse throws, when `Report` is
\* missing, or when reading Issues.length of a missing `Issues` throws.
parseOutput(json) ==
  IF json.text # "json" THEN [threw |-> TRUE, defined |-> FALSE, Issues |-> <<>>]
  ELSE IF ~json.Report THEN [threw |-> TRUE, defined |-> FALSE, Issues |-> <<>>]
  ELSE IF ~json.hasIssues THEN [threw |-> TRUE, defined |-> FALSE, Issues |-> <<>>]
  ELSE IF Len(json.Issues) # 0
       THEN [threw |-> FALSE, defined |-> TRUE,
             Issues |-> [i \in 1..Len(FilterIssues(json.Issues)) |->
                           MapIssue(FilterIssues(json.Issues)[i])]]
       ELSE [threw |-> FALSE, defined |-> TRUE, Issues |-> json.Issues]

\* The values of the `failure-severity` input the specification of the whole
\* run draws from.
FailureSeverityChoices == {"warning", "failure", "Warning", ""}

\* A gate that asks for a severity above the threshold rather than at it.
hasFailingIssuesAbove(issues, input) ==
  LET userFailureSeverity == ToLowerCase(input)
      found == IndexOf(LintSeverityValues, userFailureSeverity)
      failureSeverity == IF found < 0 THEN DefaultFailureSeverity ELSE found
  IN  IF Len(issues) # 0
      THEN IF failureSeverity <= 0 THEN TRUE
           ELSE \E i \in 1..Len(issues) :
                  LintSeverity(issues[i].Severity) > failureSeverity
      ELSE FALSE

\* hasFailingIssues, with the `failure-severity` input as a parameter.
hasFailingIssues(issues, input) ==
  LET userFailureSeverity == ToLowerCase(input)
      found == IndexOf(LintSeverityValues, userFailureSeverity)
      failureSeverity == IF found < 0 THEN DefaultFailureSeverity ELSE found
  IN  IF Len(issues) # 0
      THEN IF failureSeverity <= 0 THEN TRUE
           ELSE \E i \in 1..Len(issues) :
                  LintSeverity(issues[i].Severity) >= failureSeverity
      ELSE FALSE

\* ------------------------------------------------------------ annotations

chunkSize == 50

\* The GithubAnnotation annotateLintIssues maps an issue to.
GithubAnnotation(issue) == [issue |-> issue.id, annotation_level |-> issue.Severity]

githubAnnotations(issues) == [i \in 1..Len(issues) |-> GithubAnnotation(issues[i])]

\* Math.ceil(n / size) for n >= 0, size > 0.
Ceil(n, size) == IF n % size = 0 THEN n \div size ELSE (n \div size) + 1

\* Array.prototype.slice(from, to): zero-based, `to` excluded and clipped.
Slice(seq, from, to) ==
  SubSeq(seq, from + 1, IF to > Len(seq) THEN Len(seq) ELSE to)

\* A slice that drops the last element of every batch.
ChunkShort(annotations, i) ==
  Slice(annotations, i * chunkSize, i * chunkSize + chunkSize - 1)

\* The batch of index i (from zero), as Array.from's callback builds it.
Chunk(annotations, i) ==
  Slice(annotations, i * chunkSize, i * chunkSize + chunkSize)

\* The batches in the order forEach visits them.
Chunks(annotations) ==
  [k \in 1..Ceil(Len(annotations), chunkSize) |-> Chunk(annotations, k - 1)]

\* ------------------------------------------------------------------ state

VARIABLES
  eventName,        \* github.context.eventName
  pullRequest,      \* whether github.context.payload.pull_request is set
  onlyNewIssues,    \* the input `only-new-issues`
  githubToken,      \* whether the input `github-token` is non-empty
  debug,            \* the input `debug`, once runLint has read it
  userArgs,         \* the input `args`, once runLint has read it
  workingDirectory, \* the input `working-directory`, once runLint has read it
  failureSeverity,  \* the input `failure-severity`, once hasFailingIssues has read it
  promise,          \* the state of the promise of each task of prepareEnv
  lintStep,         \* the await prepareLint is at
  patchStep,        \* the await fetchPatch is at
  patchWarning,     \* what fetchPatch warned about, "" when nothing
  patchValue,       \* the path the promise of fetchPatch resolved to
  pc,               \* the await run() is at
  env,              \* the Env prepareEnv returned
  po,               \* the two calls of printOutput: of `cache status` and of `run`
  spawned,          \* the subprocesses started, in order
  host,             \* the outcomes reported to the host, in order
  api,              \* the calls made to the checks API, in order, with their state
  applied           \* hasFailingIssues called on its own: its arguments and result

vars ==
  << eventName, pullRequest, onlyNewIssues, githubToken, debug, userArgs,
     workingDirectory, failureSeverity, promise, lintStep, patchStep, patchWarning,
     patchValue, pc, env, po, spawned, host, api, applied >>

context == << eventName, pullRequest, onlyNewIssues, githubToken >>
inputs == << debug, userArgs, workingDirectory, failureSeverity >>
tasks == << promise, lintStep, patchStep, patchWarning, patchValue >>

Tasks == {"restoreCache", "prepareLint", "installGo", "fetchPatch"}

\* ExecRes.code when the result carries none (`code?: number`).
NoCode == -1

PatchFile == "/tmp/dir/pull.patch"
LintPath == "/opt/golangci-lint"

\* ExecRes.code when the subprocess was ended by a signal: exec rejects with
\* an error whose `code` is null.
NullCode == -2

\* A call of printOutput that has not been made.
Idle == [pc |-> "idle", res |-> [stdout |-> EmptyStdout, code |-> NoCode],
         lintOutput |-> Undefined, annotate |-> "none"]

\* hasFailingIssues has not been called on its own.
NotApplied == [issues |-> <<>>, input |-> "", called |-> FALSE, result |-> FALSE]

\* run() has been called and nothing has happened yet. The event, the token
\* and `only-new-issues` are fixed here; the inputs that only runLint and
\* hasFailingIssues read are drawn where the code reads them.
Init ==
  /\ eventName \in {"pull_request", "push", "schedule"}
  /\ pullRequest \in BOOLEAN
  /\ pullRequest => eventName = "pull_request"
  /\ onlyNewIssues \in {"true", "false", "yes"}
  /\ githubToken \in BOOLEAN
  /\ debug = ""
  /\ userArgs = <<>>
  /\ workingDirectory = ""
  /\ failureSeverity = ""
  /\ promise = [t \in Tasks |-> "none"]
  /\ lintStep = "none"
  /\ patchStep = "none"
  /\ patchWarning = ""
  /\ patchValue = ""
  /\ pc = "start"
  /\ env = [lintPath |-> "", patchPath |-> ""]
  /\ po = [p \in {"cache", "run"} |-> Idle]
  /\ spawned = <<>>
  /\ host = <<>>
  /\ api = <<>>
  /\ applied = NotApplied

\* core.setFailed(message), called by `by`.
SetFailed(by, message) == [op |-> "setFailed", by |-> by, message |-> message]

\* core.info(`golangci-lint found no blocking issues`), called by `by`.
Clean(by) == [op |-> "clean", by |-> by, message |-> "golangci-lint found no blocking issues"]

\* The catch of run(): the error is reported with core.setFailed.
RunCatch(message) == SetFailed("run", message)

\* ------------------------------------------------------------- prepareEnv

\* fetchPatch up to its first await, from the values it reads. (The values of
\* `only-new-issues` drawn carry no white space, so trim() changes none.)
fetchPatch ==
  IF onlyNewIssues # "false" /\ onlyNewIssues # "true"
  THEN [promise |-> "rejected", step |-> "done", warning |-> ""]
  ELSE IF onlyNewIssues = "false"
  THEN [promise |-> "resolved", step |-> "done", warning |-> ""]
  ELSE IF eventName # "pull_request"
  THEN [promise |-> "resolved", step |-> "done", warning |-> ""]
  ELSE IF ~pullRequest
  THEN [promise |-> "resolved", step |-> "done", warning |-> "No pull request in context"]
  ELSE IF ~githubToken   \* getInput(`github-token`, {required: true}) throws
  THEN [promise |-> "rejected", step |-> "done", warning |-> ""]
  ELSE [promise |-> "pending", step |-> "pulls.get", warning |-> ""]

\* A prepareEnv that starts prepareLint alone and awaits it before it starts
\* the other tasks.
PrepareEnvStartOneByOne ==
  /\ pc = "start"
  /\ promise' = [t \in Tasks |-> IF t = "prepareLint" THEN "pending" ELSE "none"]
  /\ lintStep' = "findLintVersion"
  /\ pc' = "await prepareLintPromise"
  /\ UNCHANGED << applied, context, inputs, patchStep, patchWarning, patchValue,
                  env, po, spawned, host, api >>

\* run() enters prepareEnv, which starts the four tasks and awaits the first.
PrepareEnvStart ==
  /\ pc = "start"
  /\ promise' = [t \in Tasks |-> IF t = "fetchPatch" THEN fetchPatch.promise ELSE "pending"]
  /\ lintStep' = "findLintVersion"
  /\ patchStep' = fetchPatch.step
  /\ patchWarning' = fetchPatch.warning
  /\ patchValue' = ""
  /\ pc' = "await prepareLintPromise"
  /\ UNCHANGED << applied, context, inputs, env, po, spawned, host, api >>

Settled(ok) == IF ok THEN "resolved" ELSE "rejected"

\* restoreCache() settles.
RestoreCacheSettles(ok) ==
  /\ promise["restoreCache"] = "pending"
  /\ promise' = [promise EXCEPT !["restoreCache"] = Settled(ok)]
  /\ UNCHANGED << applied, context, inputs, lintStep, patchStep, patchWarning, patchValue,
                  pc, env, po, spawned, host, api >>

\* installGo() settles.
InstallGoSettles(ok) ==
  /\ promise["installGo"] = "pending"
  /\ promise' = [promise EXCEPT !["installGo"] = Settled(ok)]
  /\ UNCHANGED << applied, context, inputs, lintStep, patchStep, patchWarning, patchValue,
                  pc, env, po, spawned, host, api >>

\* prepareLint: findLintVersion() settles; installLint starts when it resolved.
FindLintVersionSettles(ok) ==
  /\ promise["prepareLint"] = "pending"
  /\ lintStep = "findLintVersion"
  /\ lintStep' = IF ok THEN "installLint" ELSE "done"
  /\ promise' = [promise EXCEPT !["prepareLint"] = IF ok THEN "pending" ELSE "rejected"]
  /\ UNCHANGED << applied, context, inputs, patchStep, patchWarning, patchValue,
                  pc, env, po, spawned, host, api >>

\* prepareLint: installLint() settles.
InstallLintSettles(ok) ==
  /\ promise["prepareLint"] = "pending"
  /\ lintStep = "installLint"
  /\ lintStep' = "done"
  /\ promise' = [promise EXCEPT !["prepareLint"] = Settled(ok)]
  /\ UNCHANGED << applied, context, inputs, patchStep, patchWarning, patchValue,
                  pc, env, po, spawned, host, api >>

\* fetchPatch: octokit.pulls.get settles: it throws, or answers with a status.
PullsGetSettles(outcome) ==
  /\ promise["fetchPatch"] = "pending"
  /\ patchStep = "pulls.get"
  /\ IF outcome = "200"
     THEN /\ patchStep' = "createTempDir"
          /\ UNCHANGED << promise, patchWarning >>
     ELSE /\ patchStep' = "done"
          /\ promise' = [promise EXCEPT !["fetchPatch"] = "resolved"]
          /\ patchWarning' = IF outcome = "threw"
                             THEN "failed to fetch pull request patch"
                             ELSE "failed to fetch pull request patch: response status"
  /\ UNCHANGED << applied, context, inputs, lintStep, patchValue, pc, env, po, spawned, host, api >>

\* fetchPatch: createTempDir() settles.
CreateTempDirSettles(ok) ==
  /\ promise["fetchPatch"] = "pending"
  /\ patchStep = "createTempDir"
  /\ IF ok
     THEN /\ patchStep' = "writeFile"
          /\ UNCHANGED << promise, patchWarning >>
     ELSE /\ patchStep' = "done"
          /\ promise' = [promise EXCEPT !["fetchPatch"] = "resolved"]
          /\ patchWarning' = "failed to save pull request patch"
  /\ UNCHANGED << applied, context, inputs, lintStep, patchValue, pc, env, po, spawned, host, api >>

\* fetchPatch: writeFile() settles.
WriteFileSettles(ok) ==
  /\ promise["fetchPatch"] = "pending"
  /\ patchStep = "writeFile"
  /\ patchStep' = "done"
  /\ promise' = [promise EXCEPT !["fetchPatch"] = "resolved"]
  /\ patchValue' = IF ok THEN PatchFile ELSE ""
  /\ patchWarning' = IF ok THEN "" ELSE "failed to save pull request patch"
  /\ UNCHANGED << applied, context, inputs, lintStep, pc, env, po, spawned, host, api >>

\* The task prepareEnv awaits at each of its awaits, and the await after it.
Awaited(at) ==
  CASE at = "await prepareLintPromise"  -> "prepareLint"
    [] at = "await installGoPromise"    -> "installGo"
    [] at = "await restoreCachePromise" -> "restoreCache"
    [] at = "await patchPromise"        -> "fetchPatch"

\* A prepareEnv that never awaits restoreCachePromise.
NextAwaitSkipsCache(at) ==
  CASE at = "await prepareLintPromise"  -> "await installGoPromise"
    [] at = "await installGoPromise"    -> "await patchPromise"
    [] at = "await restoreCachePromise" -> "await patchPromise"
    [] at = "await patchPromise"        -> "runLint"

NextAwait(at) ==
  CASE at = "await prepareLintPromise"  -> "await installGoPromise"
    [] at = "await installGoPromise"    -> "await restoreCachePromise"
    [] at = "await restoreCachePromise" -> "await patchPromise"
    [] at = "await patchPromise"        -> "runLint"

PrepareAwaits ==
  {"await prepareLintPromise", "await installGoPromise",
   "await restoreCachePromise", "await patchPromise"}

\* prepareEnv resumes from an await whose promise has settled: it goes on to
\* the next await, returns the Env after the last, or throws into run()'s catch.
PrepareEnvResumes ==
  /\ pc \in PrepareAwaits
  /\ promise[Awaited(pc)] \in {"resolved", "rejected"}
  /\ IF promise[Awaited(pc)] = "rejected"
     THEN /\ pc' = "done"
          /\ host' = Append(host, RunCatch("failed to prepare: " \o Awaited(pc)))
          /\ UNCHANGED env
     ELSE /\ pc' = NextAwait(pc)
          /\ env' = IF pc = "await patchPromise"
                    THEN [lintPath |-> LintPath, patchPath |-> patchValue]
                    ELSE env
          /\ UNCHANGED host
  /\ UNCHANGED << applied, context, inputs, tasks, po, spawned, api >>

\* ------------------------------------------------------------ printOutput

\* const exit_code = res.code ? res.code : 0
ExitCode(res) ==
  IF res.code # NoCode /\ res.code # NullCode /\ res.code # 0 THEN res.code ELSE 0

Processing == "there was an error processing golangci-lint output"

\* The events printOutput annotates on.
AnnotatedEvents == {"pull_request", "push"}

\* An inner try whose switch has no `push` case: a push is not annotated.
PrintOutputTryPullRequestOnly(res) ==
  IF res.stdout.text # ""
  THEN LET lintOutput == parseOutput(res.stdout)
       IN  IF lintOutput.threw
           THEN [at |-> "threw", lintOutput |-> Undefined]
           ELSE IF eventName = "pull_request"
           THEN IF githubToken
                THEN [at |-> "await", lintOutput |-> [defined |-> TRUE, Issues |-> lintOutput.Issues]]
                ELSE [at |-> "threw", lintOutput |-> [defined |-> TRUE, Issues |-> lintOutput.Issues]]
           ELSE [at |-> "through", lintOutput |-> [defined |-> TRUE, Issues |-> lintOutput.Issues]]
  ELSE [at |-> "through", lintOutput |-> Undefined]

\* The inner try of printOutput up to the point where it has to wait: it
\* threw, it awaits the check run that annotateLintIssues fetches, or it fell
\* through to the interpretation of the exit code. annotateLintIssues reads
\* the required `github-token` first: without it the call rejects at once and
\* the catch runs before anything else can report to the host.
PrintOutputTry(res) ==
  IF res.stdout.text # ""
  THEN LET lintOutput == parseOutput(res.stdout)
       IN  IF lintOutput.threw
           THEN [at |-> "threw", lintOutput |-> Undefined]
           ELSE IF eventName \in AnnotatedEvents
           THEN IF githubToken
                THEN [at |-> "await", lintOutput |-> [defined |-> TRUE, Issues |-> lintOutput.Issues]]
                ELSE [at |-> "threw", lintOutput |-> [defined |-> TRUE, Issues |-> lintOutput.Issues]]
           ELSE [at |-> "through", lintOutput |-> [defined |-> TRUE, Issues |-> lintOutput.Issues]]
  ELSE [at |-> "through", lintOutput |-> Undefined]

\* Whether the interpretation of the exit code calls hasFailingIssues.
ReadsFailureSeverity(res, lintOutput) == ExitCode(res) = 1 /\ lintOutput.defined

\* An interpretation that takes every exit code but 1 for success.
InterpretOnlyOne(by, res, lintOutput, input) ==
  IF ExitCode(res) = 1 /\ (~lintOutput.defined \/ hasFailingIssues(lintOutput.Issues, input))
  THEN SetFailed(by, "issues found")
  ELSE Clean(by)

\* An interpretation that never looks at the issues of an exit code 1.
InterpretNoGate(by, res, lintOutput, input) ==
  IF ExitCode(res) = 1 /\ ~lintOutput.defined
  THEN SetFailed(by, "unexpected state, golangci-lint exited with 1, but provided no lint output")
  ELSE IF ExitCode(res) > 1
  THEN SetFailed(by, "golangci-lint exit with code " \o ToString(ExitCode(res)))
  ELSE Clean(by)

\* The interpretation of the exit code, after the inner try: what printOutput
\* reports to the host.
Interpret(by, res, lintOutput, input) ==
  IF ExitCode(res) = 1
  THEN IF lintOutput.defined
       THEN IF hasFailingIssues(lintOutput.Issues, input)
            THEN SetFailed(by, "issues found")
            ELSE Clean(by)
       ELSE SetFailed(by, "unexpected state, golangci-lint exited with 1, but provided no lint output")
  ELSE IF ExitCode(res) > 1
  THEN SetFailed(by, "golangci-lint exit with code " \o ToString(ExitCode(res)))
  ELSE Clean(by)

ApiCall(call, by, annotations) ==
  [call |-> call, by |-> by, annotations |-> annotations, state |-> "pending"]

\* printOutput(res) from its call to its first wait or to its end: the state
\* of the call, what it reported to the host and the API calls it started.
PrintOutputCall(by, res, input) ==
  LET try == PrintOutputTry(res)
  IN  CASE try.at = "threw" ->
             [inst |-> [pc |-> "done", res |-> res, lintOutput |-> try.lintOutput,
                        annotate |-> IF try.lintOutput.defined THEN "rejected" ELSE "none"],
              reports |-> << SetFailed(by, Processing) >>,
              calls |-> <<>>]
        [] try.at = "await" ->
             [inst |-> [pc |-> "await annotateLintIssues", res |-> res,
                        lintOutput |-> try.lintOutput, annotate |-> "checks.get"],
              reports |-> <<>>,
              calls |-> << ApiCall("checks.get", by, <<>>) >>]
        [] try.at = "through" ->
             [inst |-> [pc |-> "done", res |-> res, lintOutput |-> try.lintOutput,
                        annotate |-> "none"],
              reports |-> << Interpret(by, res, try.lintOutput, input) >>,
              calls |-> <<>>]

\* The update calls of annotateLintIssues, in the order forEach starts them.
\* None is awaited: all are started in the same segment.
UpdateCalls(by, issues) ==
  LET batches == Chunks(githubAnnotations(issues))
  IN  [k \in 1..Len(batches) |-> ApiCall("checks.update", by, batches[k])]

\* ---------------------------------------------------------------- runLint

DebugChoices == {"", "cache"}

\* debug.split(`,`) on the values drawn.
SplitComma(str) == << str >>

Includes(seq, x) == \E i \in 1..Len(seq) : seq[i] = x

\* The directories that exist.
IsDirectory(dir) == dir = "sub"

WorkingDirectoryChoices == {"", "sub", "missing"}

OutFormatMessage ==
  "please, don't change out-format for golangci-lint: it can be broken in a future"
NewArgsMessage ==
  "please, don't specify manually --new* args when requesting only new issues"
IncompatibleMessage == "options working-directory and only-new-issues aren't compatible"
NotAPathMessage == "working-directory was not a path"

Threw(message) == [threw |-> TRUE, message |-> message, addedArgs |-> <<>>, cwd |-> ""]

\* The part of runLint that checks the user's args and assembles the command.
BuildCommand(args, dir, patchPath) ==
  LET userArgNames == UserArgNames(args)
      format == << Arg(2, "out-format", TRUE, "json") >>
      patch == IF patchPath # ""
               THEN << Arg(2, "new-from-patch", TRUE, patchPath),
                       Arg(2, "new", TRUE, "false"),
                       Arg(2, "new-from-rev", TRUE, "") >>
               ELSE <<>>
      prefix == IF dir # "" /\ ~Has(userArgNames, "path-prefix")
                THEN << Arg(2, "path-prefix", TRUE, dir) >>
                ELSE <<>>
  IN  IF Has(userArgNames, "out-format") THEN Threw(OutFormatMessage)
      ELSE IF patchPath # "" /\ (Has(userArgNames, "new") \/ Has(userArgNames, "new-from-rev")
                                   \/ Has(userArgNames, "new-from-patch"))
      THEN Threw(NewArgsMessage)
      ELSE IF dir # "" /\ patchPath # "" THEN Threw(IncompatibleMessage)
      ELSE IF dir # "" /\ ~IsDirectory(dir) THEN Threw(NotAPathMessage)
      ELSE [threw |-> FALSE, message |-> "", addedArgs |-> format \o patch \o prefix,
            cwd |-> dir]

Command(what, addedArgs, args, cwd) ==
  [cmd |-> what, addedArgs |-> addedArgs, userArgs |-> args, cwd |-> cwd]

\* runLint is entered: it reads `debug` and either starts `cache status`, or
\* reads the args and the working directory and starts `run` (or throws).
RunLintStarts(d, args, dir) ==
  /\ pc = "runLint"
  /\ debug' = d
  /\ IF Includes(SplitComma(d), "cache")
     THEN /\ args = userArgs /\ dir = workingDirectory
          /\ spawned' = Append(spawned, Command("cache status", <<>>, <<>>, ""))
          /\ pc' = "await cache status"
          /\ UNCHANGED << userArgs, workingDirectory, host >>
     ELSE LET build == BuildCommand(args, dir, env.patchPath)
          IN  /\ userArgs' = args
              /\ workingDirectory' = dir
              /\ IF build.threw
                 THEN /\ host' = Append(host, RunCatch(build.message))
                      /\ pc' = "done"
                      /\ UNCHANGED spawned
                 ELSE /\ spawned' = Append(spawned, Command("run", build.addedArgs, args, build.cwd))
                      /\ pc' = "await run"
                      /\ UNCHANGED host
  /\ UNCHANGED << applied, context, failureSeverity, tasks, env, po, api >>

\* What `cache status` may print.
CacheStdouts ==
  { EmptyStdout, Stdout("text", FALSE, FALSE, <<>>), Stdout("json", TRUE, TRUE, <<>>) }

\* `cache status` ends. When it failed, runLint throws into run()'s catch.
\* Otherwise printOutput is called on its result and not awaited, and runLint
\* goes on to read the args and to start `run` (or to throw).
CacheStatusSettles(ok, out, args, dir) ==
  /\ pc = "await cache status"
  /\ IF ~ok
     THEN /\ out = EmptyStdout /\ args = userArgs /\ dir = workingDirectory
          /\ host' = Append(host, RunCatch("Command failed: cache status"))
          /\ pc' = "done"
          /\ UNCHANGED << userArgs, workingDirectory, po, spawned, api >>
     ELSE LET call == PrintOutputCall("cache", [stdout |-> out, code |-> NoCode], failureSeverity)
              build == BuildCommand(args, dir, env.patchPath)
          IN  /\ userArgs' = args
              /\ workingDirectory' = dir
              /\ po' = [po EXCEPT !["cache"] = call.inst]
              /\ api' = api \o call.calls
              /\ IF build.threw
                 THEN /\ host' = (host \o call.reports) \o << RunCatch(build.message) >>
                      /\ pc' = "done"
                      /\ UNCHANGED spawned
                 ELSE /\ host' = host \o call.reports
                      /\ spawned' = Append(spawned, Command("run", build.addedArgs, args, build.cwd))
                      /\ pc' = "await run"
  /\ UNCHANGED << applied, context, debug, failureSeverity, tasks, env >>

\* The codes of the result of `run`: none when exec resolved (the tool exited
\* with 0), null when a signal ended the tool, else the tool's exit code.
ExitCodes == {NoCode, NullCode, 1, 2, 3}

\* What `run` may print.
RunStdouts(n) ==
  { EmptyStdout, Stdout("text", FALSE, FALSE, <<>>),
    Stdout("json", FALSE, FALSE, <<>>),
    Stdout("json", FALSE, TRUE, <<>>),
    Stdout("json", FALSE, TRUE, << [id |-> 1, Severity |-> "ignore"] >>),
    Stdout("json", TRUE, FALSE, <<>>) }
  \cup { Stdout("json", TRUE, TRUE, issues) : issues \in IssueLists(n) }

ExecResults == [stdout : RunStdouts(MaxRawIssues), code : ExitCodes]

\* `run` ends with res (exec resolved, or rejected with the result as the
\* error): printOutput(res) is called and awaited.
ExecRunSettles(res, input) ==
  /\ pc = "await run"
  /\ LET call == PrintOutputCall("run", res, input)
     IN  /\ IF call.inst.pc = "done" /\ call.inst.annotate = "none"
                 /\ ReadsFailureSeverity(res, call.inst.lintOutput)
            THEN failureSeverity' = input
            ELSE input = failureSeverity /\ UNCHANGED failureSeverity
         /\ po' = [po EXCEPT !["run"] = call.inst]
         /\ host' = host \o call.reports
         /\ api' = api \o call.calls
         /\ pc' = IF call.inst.pc = "done" THEN "done" ELSE "await printOutput"
  /\ UNCHANGED << applied, context, debug, userArgs, workingDirectory, tasks, env, spawned >>

\* The index in api of the checks.get call of a call of printOutput.
ChecksGet(by) == CHOOSE k \in 1..Len(api) : api[k].call = "checks.get" /\ api[k].by = by

\* The check run that annotateLintIssues awaits settles. When it resolved,
\* the update calls are started, none awaited, and printOutput interprets the
\* exit code; when it rejected, printOutput's catch reports the failure.
ChecksGetSettles(by, ok, input) ==
  /\ po[by].pc = "await annotateLintIssues"
  /\ IF ok /\ ReadsFailureSeverity(po[by].res, po[by].lintOutput)
     THEN failureSeverity' = input
     ELSE input = failureSeverity /\ UNCHANGED failureSeverity
  /\ IF ok
     THEN /\ api' = [api EXCEPT ![ChecksGet(by)].state = "ok"]
                      \o UpdateCalls(by, po[by].lintOutput.Issues)
          /\ host' = Append(host, Interpret(by, po[by].res, po[by].lintOutput, input))
     ELSE /\ api' = [api EXCEPT ![ChecksGet(by)].state = "error"]
          /\ host' = Append(host, SetFailed(by, Processing))
  /\ po' = [po EXCEPT ![by].pc = "done"]
  /\ pc' = IF by = "run" THEN "done" ELSE pc
  /\ UNCHANGED << applied, context, debug, userArgs, workingDirectory, tasks, env, spawned >>

\* An update call settles. Nothing awaits it and nothing handles its error.
UpdateSettles(k, ok) ==
  /\ k \in 1..Len(api)
  /\ api[k].call = "checks.update"
  /\ api[k].state = "pending"
  /\ api' = [api EXCEPT ![k].state = IF ok THEN "ok" ELSE "error"]
  /\ UNCHANGED << applied, context, inputs, tasks, pc, env, po, spawned, host >>

\* ---------------------------------------------------------- specification

Next ==
  \/ PrepareEnvStart
  \/ \E ok \in BOOLEAN : RestoreCacheSettles(ok)
  \/ \E ok \in BOOLEAN : InstallGoSettles(ok)
  \/ \E ok \in BOOLEAN : FindLintVersionSettles(ok)
  \/ \E ok \in BOOLEAN : InstallLintSettles(ok)
  \/ \E outcome \in {"200", "404", "threw"} : PullsGetSettles(outcome)
  \/ \E ok \in BOOLEAN : CreateTempDirSettles(ok)
  \/ \E ok \in BOOLEAN : WriteFileSettles(ok)
  \/ PrepareEnvResumes
  \/ \E d \in DebugChoices, args \in UserArgsChoices, dir \in WorkingDirectoryChoices :
       RunLintStarts(d, args, dir)
  \/ \E ok \in BOOLEAN, out \in CacheStdouts, args \in UserArgsChoices,
        dir \in WorkingDirectoryChoices : CacheStatusSettles(ok, out, args, dir)
  \/ \E res \in ExecResults, input \in FailureSeverityChoices : ExecRunSettles(res, input)
  \/ \E by \in {"cache", "run"}, ok \in BOOLEAN, input \in FailureSeverityChoices :
       ChecksGetSettles(by, ok, input)
  \/ \E k \in 1..Len(api), ok \in BOOLEAN : UpdateSettles(k, ok)

Spec == Init /\ [][Next]_vars

\* ------------------------------------------- annotation of long issue lists

\* A report of n issues that parseOutput retains.
LongReport(n) ==
  Stdout("json", TRUE, TRUE, [i \in 1..n |-> [id |-> i, Severity |-> "ignore"]])

LongExecResults == { [stdout |-> LongReport(n), code |-> code] :
                       n \in 0..MaxIssues, code \in {NoCode, 2} }

\* `run` has been started on a push or a pull request, with the token set,
\* no patch requested and no args: run() awaits the subprocess.
InitBatch ==
  /\ eventName \in AnnotatedEvents
  /\ pullRequest = (eventName = "pull_request")
  /\ onlyNewIssues = "false"
  /\ githubToken = TRUE
  /\ debug = ""
  /\ userArgs = <<>>
  /\ workingDirectory = ""
  /\ failureSeverity = ""
  /\ promise = [t \in Tasks |-> "resolved"]
  /\ lintStep = "done"
  /\ patchStep = "done"
  /\ patchWarning = ""
  /\ patchValue = ""
  /\ pc = "await run"
  /\ env = [lintPath |-> LintPath, patchPath |-> ""]
  /\ po = [p \in {"cache", "run"} |-> Idle]
  /\ spawned = << Command("run", << Arg(2, "out-format", TRUE, "json") >>, <<>>, "") >>
  /\ host = <<>>
  /\ api = <<>>
  /\ applied = NotApplied

NextBatch ==
  \/ \E res \in LongExecResults : ExecRunSettles(res, failureSeverity)
  \/ \E ok \in BOOLEAN : ChecksGetSettles("run", ok, failureSeverity)
  \/ \E k \in 1..Len(api), ok \in BOOLEAN : UpdateSettles(k, ok)

SpecBatch == InitBatch /\ [][NextBatch]_vars

\* ------------------------------------------------- hasFailingIssues alone

\* The longest issue list hasFailingIssues is called on.
MaxGateIssues == 3

\* LintSeverityStrings: the severities a LintIssue can carry.
LintSeverityStrings == {"notice", "warning", "failure"}

\* The LintIssue arrays of at most n issues; the i-th issue has id i.
LintIssueLists(n) ==
  UNION { { [i \in 1..k |-> [id |-> i, Severity |-> sev[i]]] :
              sev \in [1..k -> LintSeverityStrings] } : k \in 0..n }

\* Values of the `failure-severity` input: the names of the enum, names in
\* another case, the empty string, an alias of the parser, an ordinal written
\* as a string, and the sentinel of the parser.
FailureSeverityInputs ==
  {"notice", "warning", "failure", "Warning", "FAILURE", "", "error", "1", "ignore"}

\* hasFailingIssues is about to be called on some issues, with some value of
\* the `failure-severity` input; run() has not started.
InitGate ==
  /\ eventName = "push"
  /\ pullRequest = FALSE
  /\ onlyNewIssues = "false"
  /\ githubToken = TRUE
  /\ debug = ""
  /\ userArgs = <<>>
  /\ workingDirectory = ""
  /\ failureSeverity = ""
  /\ promise = [t \in Tasks |-> "none"]
  /\ lintStep = "none"
  /\ patchStep = "none"
  /\ patchWarning = ""
  /\ patchValue = ""
  /\ pc = "start"
  /\ env = [lintPath |-> "", patchPath |-> ""]
  /\ po = [p \in {"cache", "run"} |-> Idle]
  /\ spawned = <<>>
  /\ host = <<>>
  /\ api = <<>>
  /\ applied \in [issues : LintIssueLists(MaxGateIssues), input : FailureSeverityInputs,
                   called : {FALSE}, result : {FALSE}]

\* hasFailingIssues(issues) returns.
HasFailingIssuesReturns ==
  /\ ~applied.called
  /\ applied' = [applied EXCEPT !.called = TRUE,
                                !.result = hasFailingIssues(applied.issues, applied.input)]
  /\ UNCHANGED << context, inputs, tasks, pc, env, po, spawned, host, api >>

NextGate == HasFailingIssuesReturns

SpecGate == InitGate /\ [][NextGate]_vars

\* ------------------------------------------------ reports of any severity

\* The longest Issues array of the reports below.
MaxParseIssues == 2

\* Severities the tool may report: the sentinel, the sentinel in another
\* case, two aliases of the severityMap and a label it does not hold.
ReportedSeverities == {"ignore", "Ignore", "info", "failure", "style"}

\* The reports with at most n issues of these severities.
ValidReports(n) ==
  UNION { { Stdout("json", TRUE, TRUE, [i \in 1..k |-> [id |-> i, Severity |-> sev[i]]]) :
              sev \in [1..k -> ReportedSeverities] } : k \in 0..n }

ReportExecResults == [stdout : ValidReports(MaxParseIssues), code : {NoCode, 1}]

\* `run` has been started with the token set, no patch requested and no
\* args, on an event that is annotated or on one that is not: run() awaits
\* the subprocess.
InitParse ==
  /\ eventName \in {"push", "schedule"}
  /\ pullRequest = FALSE
  /\ onlyNewIssues = "false"
  /\ githubToken = TRUE
  /\ debug = ""
  /\ userArgs = <<>>
  /\ workingDirectory = ""
  /\ failureSeverity = ""
  /\ promise = [t \in Tasks |-> "resolved"]
  /\ lintStep = "done"
  /\ patchStep = "done"
  /\ patchWarning = ""
  /\ patchValue = ""
  /\ pc = "await run"
  /\ env = [lintPath |-> LintPath, patchPath |-> ""]
  /\ po = [p \in {"cache", "run"} |-> Idle]
  /\ spawned = << Command("run", << Arg(2, "out-format", TRUE, "json") >>, <<>>, "") >>
  /\ host = <<>>
  /\ api = <<>>
  /\ applied = NotApplied

NextParse ==
  \/ \E res \in ReportExecResults, input \in FailureSeverityInputs : ExecRunSettles(res, input)
  \/ \E ok \in BOOLEAN, input \in FailureSeverityInputs : ChecksGetSettles("run", ok, input)

SpecParse == InitParse /\ [][NextParse]_vars

\* ------------------------------------------------------------------ claims

Range(seq) == { seq[i] : i \in 1..Len(seq) }

\* The outcomes `by` reported to the host.
Reports(by) == SelectSeq(host, LAMBDA report : report.by = by)

MarkedFailed(by) == \E report \in Range(host) : report.op = "setFailed" /\ report.by = by

ReportedClean(by) == \E report \in Range(host) : report.op = "clean" /\ report.by = by

\* The update calls `by` started, in order.
Updates(by) == SelectSeq(api, LAMBDA c : c.call = "checks.update" /\ c.by = by)

RunSpawned == \E c \in Range(spawned) : c.cmd = "run"

\* The `run` command that was started.
RunCommand == CHOOSE c \in Range(spawned) : c.cmd = "run"

\* The exit code was interpreted: `by` reported something else than an error
\* of the processing of the output.
Interpreted(by) == \E report \in Range(host) : report.by = by /\ report.message # Processing

\* annotateLintIssues could not fetch the check run: the token was missing,
\* or checks.get rejected.
FetchFailed(by) ==
  \/ po[by].annotate = "rejected"
  \/ po[by].annotate = "checks.get" /\ api[ChecksGet(by)].state = "error"

RECURSIVE Flatten(_)
\* The annotations of a sequence of update calls, concatenated in call order.
Flatten(calls) ==
  IF calls = <<>> THEN <<>> ELSE Head(calls).annotations \o Flatten(Tail(calls))

\* The annotations of a list of issues, in issue order.
AnnotationsOf(issues) ==
  [i \in 1..Len(issues) |-> [issue |-> issues[i].id, annotation_level |-> issues[i].Severity]]

\* An output-format argument: one or two dashes, with or without a value.
ContainsOutFormat(args) ==
  \E i \in 1..Len(args) : args[i].name = "out-format" /\ args[i].dashes \in {1, 2}

\* C1: when the user's args hold an output-format argument (--out-format or
\* -out-format, with or without =value), runLint fails with the out-format
\* conflict error and the `run` subprocess is never started.
C1_OutFormatRejected ==
  ContainsOutFormat(userArgs) =>
    /\ ~RunSpawned
    /\ pc = "done" => RunCatch(OutFormatMessage) \in Range(host)

\* C2: when the tool exits with 1, its stdout is a valid report with one issue
\* of reported severity "failure", the threshold is "warning" and nothing went
\* wrong in the processing of the output, the run is marked failed with
\* `issues found` and is not reported clean.
C2_FailureIssueFailsRun ==
  ( /\ po["run"].pc = "done"
    /\ po["run"].res.code = 1
    /\ po["run"].res.stdout
         = Stdout("json", TRUE, TRUE, << [id |-> 1, Severity |-> "failure"] >>)
    /\ failureSeverity = "warning"
    /\ SetFailed("run", Processing) \notin Range(host) )
  => /\ SetFailed("run", "issues found") \in Range(host)
     /\ ~ReportedClean("run")

\* C3: a call of printOutput on a result whose exit code is greater than 1
\* never reports the run clean, and has marked the run failed when it ends,
\* whatever stdout holds and whatever the event is.
C3_ToolFatalFails ==
  \A by \in {"cache", "run"} :
    (po[by].pc # "idle" /\ po[by].res.code > 1) =>
      /\ ~ReportedClean(by)
      /\ po[by].pc = "done" => MarkedFailed(by)

\* C3's case: the tool exited with 3 on a push, printed a valid report with
\* issues, their annotations were sent, and printOutput has ended.
C3_Witness ==
  /\ po["run"].pc = "done"
  /\ po["run"].res.code = 3
  /\ eventName = "push"
  /\ Len(po["run"].lintOutput.Issues) = 2
  /\ Len(Updates("run")) = 1

\* C4: at most one update call is outstanding at any moment.
C4_OneOutstandingUpdate ==
  Cardinality({ k \in 1..Len(api) :
                  api[k].call = "checks.update" /\ api[k].state = "pending" }) <= 1

\* C5: once annotateLintIssues has fetched the check run for n issues, it has
\* started ceil(n/50) update calls (none for n = 0), each with 1 to 50
\* annotations, and the batches concatenated in call order are the annotations
\* of the issues in issue order (so their sizes sum to n).
C5_BatchesCoverIssuesInOrder ==
  \A by \in {"cache", "run"} :
    (po[by].pc = "done" /\ po[by].annotate = "checks.get" /\ ~FetchFailed(by)) =>
      LET issues == po[by].lintOutput.Issues
          n == Len(issues)
          calls == Updates(by)
      IN  /\ Len(calls) * 50 >= n
          /\ Len(calls) > 0 => (Len(calls) - 1) * 50 < n
          /\ \A k \in 1..Len(calls) : Len(calls[k].annotations) \in 1..50
          /\ Len(Flatten(calls)) = n
          /\ Flatten(calls) = AnnotationsOf(issues)

\* C5's case: 101 issues were sent in three calls, the last with one annotation.
C5_Witness ==
  /\ Len(po["run"].lintOutput.Issues) = 101
  /\ Len(Updates("run")) = 3
  /\ Len(Updates("run")[3].annotations) = 1

\* C6 as stated: whenever stdout held a valid report with issues and the exit
\* code was interpreted, the annotations of the issues had been submitted.
C6_AlwaysSubmitted ==
  \A by \in {"cache", "run"} :
    (po[by].lintOutput.defined /\ Len(po[by].lintOutput.Issues) > 0 /\ Interpreted(by)) =>
      Flatten(Updates(by)) = AnnotationsOf(po[by].lintOutput.Issues)

\* C6 amended: whenever stdout held a valid report and the exit code was
\* interpreted (also an exit code greater than 1), then on a push or a pull
\* request the check run was fetched and the annotations of the parsed issues
\* had been submitted, and on any other event no API call was made.
C6_SubmittedOnPushAndPullRequest ==
  \A by \in {"cache", "run"} :
    (po[by].lintOutput.defined /\ Interpreted(by)) =>
      IF eventName \in {"pull_request", "push"}
      THEN /\ po[by].annotate = "checks.get"
           /\ api[ChecksGet(by)].state = "ok"
           /\ Flatten(Updates(by)) = AnnotationsOf(po[by].lintOutput.Issues)
      ELSE \A c \in Range(api) : c.by # by

\* C6's case: on a pull request the tool exited with 2 and printed a report;
\* the annotation was submitted and the exit code then failed the run.
C6_Witness ==
  /\ eventName = "pull_request"
  /\ po["run"].res.code = 2
  /\ Len(po["run"].lintOutput.Issues) = 1
  /\ Len(Flatten(Updates("run"))) = 1
  /\ SetFailed("run", "golangci-lint exit with code 2") \in Range(host)

\* C7: in incremental-only mode fetchPatch never rejects, and prepareEnv does
\* not fail because of it.
C7_FetchPatchNeverRejects ==
  onlyNewIssues = "true" =>
    /\ promise["fetchPatch"] # "rejected"
    /\ RunCatch("failed to prepare: fetchPatch") \notin Range(host)

\* C8: a run reports at most one outcome to the host: it is never both marked
\* failed and reported clean, and it is marked failed at most once.
C8_SingleOutcome ==
  /\ Len(SelectSeq(host, LAMBDA report : report.op = "setFailed")) <= 1
  /\ ~(\E failed, clean \in Range(host) : failed.op = "setFailed" /\ clean.op = "clean")
  /\ Len(host) <= 1

\* The mark decided from the parsed issues and the exit code alone.
FailedByIssuesAndExitCode(res, input) ==
  LET parsed == parseOutput(res.stdout)
  IN  \/ res.stdout.text # "" /\ parsed.threw
      \/ ExitCode(res) > 1
      \/ ExitCode(res) = 1 /\ res.stdout.text = ""
      \/ ExitCode(res) = 1 /\ res.stdout.text # "" /\ hasFailingIssues(parsed.Issues, input)

\* C9 as stated: with the token set, the mark of a run is the one decided from
\* the parsed issues and the exit code, whether or not the fetch of the check
\* run and the update calls succeeded.
C9_MarkIgnoresPublishing ==
  (po["run"].pc = "done" /\ githubToken) =>
    /\ MarkedFailed("run") <=> FailedByIssuesAndExitCode(po["run"].res, failureSeverity)
    /\ ReportedClean("run") <=> ~FailedByIssuesAndExitCode(po["run"].res, failureSeverity)

\* C9 amended: when the check run could be fetched (or the event is not
\* annotated), the mark is the one decided from the parsed issues and the exit
\* code, whatever becomes of the update calls; when the token is missing or the
\* fetch of the check run fails, the run is marked failed with the processing
\* error and is not reported clean.
C9_MarkIgnoresUpdateCalls ==
  po["run"].pc = "done" =>
    IF FetchFailed("run")
    THEN /\ SetFailed("run", Processing) \in Range(host)
         /\ ~ReportedClean("run")
    ELSE /\ MarkedFailed("run") <=> FailedByIssuesAndExitCode(po["run"].res, failureSeverity)
         /\ ReportedClean("run") <=> ~FailedByIssuesAndExitCode(po["run"].res, failureSeverity)

\* C9's case: the tool exited with 0 and printed a report with an issue; the
\* update call failed and the run was reported clean all the same.
C9_Witness ==
  /\ po["run"].pc = "done"
  /\ po["run"].res.code = NoCode
  /\ \E c \in Range(api) : c.call = "checks.update" /\ c.by = "run" /\ c.state = "error"
  /\ ReportedClean("run")

\* A new-issue-selection argument: one or two dashes, with or without a value.
ContainsNewArg(args) ==
  \E i \in 1..Len(args) :
    /\ args[i].name \in {"new", "new-from-rev", "new-from-patch"}
    /\ args[i].dashes \in {1, 2}

\* C10: with a patch path, the user's args holding a new-issue-selection
\* argument make runLint fail with the conflict error before `run` is started;
\* without one, the command started holds
\* --new-from-patch=<path> --new=false --new-from-rev= after --out-format=json.
C10_NewArgsRejected ==
  /\ (env.patchPath # "" /\ ContainsNewArg(userArgs)) =>
       /\ ~RunSpawned
       /\ pc = "done" => RunCatch(NewArgsMessage) \in Range(host)
  /\ (env.patchPath # "" /\ ~ContainsNewArg(userArgs) /\ RunSpawned) =>
       SubSeq(RunCommand.addedArgs, 2, 4)
         = << Arg(2, "new-from-patch", TRUE, env.patchPath),
              Arg(2, "new", TRUE, "false"),
              Arg(2, "new-from-rev", TRUE, "") >>

\* The tasks of prepareEnv in the order prepareEnv awaits them.
JoinOrder == << "prepareLint", "installGo", "restoreCache", "fetchPatch" >>

\* How many of the tasks prepareEnv has awaited to the end.
Joined ==
  CASE pc = "start"                      -> 0
    [] pc = "await prepareLintPromise"   -> 0
    [] pc = "await installGoPromise"     -> 1
    [] pc = "await restoreCachePromise"  -> 2
    [] pc = "await patchPromise"         -> 3
    [] OTHER                             -> 4

\* C11: once prepareEnv is at an await (or beyond), all four tasks have been
\* started, whatever has become of the others; prepareEnv passes its awaits in
\* the order prepareLint, installGo, restoreCache, fetchPatch, each only when
\* the task resolved; and in prepareLint the installation is under way or
\* over only when the version resolution is over, the task resolving after both.
C11_StartedTogetherJoinedInOrder ==
  /\ pc # "start" => \A t \in Tasks : promise[t] # "none"
  /\ pc \in PrepareAwaits =>
       /\ Awaited(pc) = JoinOrder[Joined + 1]
       /\ \A k \in 1..Joined : promise[JoinOrder[k]] = "resolved"
  /\ pc \in {"runLint", "await cache status", "await run", "await printOutput"} =>
       \A t \in Tasks : promise[t] = "resolved"
  /\ lintStep = "findLintVersion" => promise["prepareLint"] = "pending"
  /\ lintStep = "installLint" => promise["prepareLint"] = "pending"
  /\ promise["prepareLint"] = "resolved" => lintStep = "done"

\* C11's case: prepareEnv still awaits prepareLint, whose version resolution
\* is not over, and the three other tasks have settled already.
C11_Witness ==
  /\ pc = "await prepareLintPromise"
  /\ lintStep = "findLintVersion"
  /\ promise["installGo"] = "resolved"
  /\ promise["restoreCache"] = "resolved"
  /\ promise["fetchPatch"] = "resolved"
  /\ patchValue = PatchFile

\* The tasks whose failure prepareEnv lets through to run().
Propagating == {"restoreCache", "prepareLint", "installGo"}

\* C12: when restoreCache, prepareLint or installGo has rejected, in whatever
\* order the tasks settled, no subprocess is started, nothing is reported
\* clean, and once run() has ended it has marked the run failed once, with the
\* error of such a task (the first rejected one in the order of the awaits).
C12_PreparationFailureFailsRun ==
  LET failed == { t \in Propagating : promise[t] = "rejected" }
  IN  failed # {} =>
        /\ spawned = <<>>
        /\ \A report \in Range(host) : report.op # "clean"
        /\ pc \in PrepareAwaits \cup {"done"}
        /\ pc = "done" =>
             \E t \in failed :
               /\ host = << RunCatch("failed to prepare: " \o t) >>
               /\ \A k \in 1..Len(JoinOrder) :
                    JoinOrder[k] = t => \A j \in 1..(k - 1) : promise[JoinOrder[j]] = "resolved"

\* C12's case: restoreCache rejected after the tasks awaited before it had
\* resolved and the patch had been written; run() ended marking the run failed.
C12_Witness ==
  /\ pc = "done"
  /\ promise["restoreCache"] = "rejected"
  /\ promise["prepareLint"] = "resolved"
  /\ promise["installGo"] = "resolved"
  /\ patchValue = PatchFile
  /\ host = << RunCatch("failed to prepare: restoreCache") >>

UnexpectedState == "unexpected state, golangci-lint exited with 1, but provided no lint output"

\* C13: a call of printOutput on a result with code 1 and an empty stdout ends
\* at once having marked the run failed with the `unexpected state` message
\* and nothing else: no report was parsed, no call to the checks API was made
\* and (by the run's call) the `failure-severity` input was not read.
C13_ExitOneNoOutputIsUnexpected ==
  \A by \in {"cache", "run"} :
    (po[by].pc # "idle" /\ po[by].res.code = 1 /\ po[by].res.stdout.text = "") =>
      /\ po[by].pc = "done"
      /\ Reports(by) = << SetFailed(by, UnexpectedState) >>
      /\ ~po[by].lintOutput.defined
      /\ po[by].annotate = "none"
      /\ \A c \in Range(api) : c.by # by
      /\ by = "run" => failureSeverity = ""

\* C13's case: on a pull request with the token set, `run` exited with 1 and
\* printed nothing, and run() has ended.
C13_Witness ==
  /\ pc = "done"
  /\ eventName = "pull_request"
  /\ githubToken
  /\ po["run"].res = [stdout |-> EmptyStdout, code |-> 1]
  /\ host = << SetFailed("run", UnexpectedState) >>

\* The severities in their order, notice < warning < failure.
SeverityRank(name) ==
  CASE name = "notice"  -> 1
    [] name = "warning" -> 2
    [] name = "failure" -> 3

\* The threshold a label resolves to: the severity of that name (the case of
\* the label's letters does not count), and `notice` when there is none.
ResolveThreshold(label) ==
  IF ToLowerCase(label) \in {"notice", "warning", "failure"}
  THEN ToLowerCase(label)
  ELSE "notice"

\* The reference gate.
ShouldFail(issues, label) ==
  LET threshold == ResolveThreshold(label)
  IN  IF issues = <<>> THEN FALSE
      ELSE IF threshold = "notice" THEN TRUE
      ELSE \E i \in 1..Len(issues) :
             SeverityRank(issues[i].Severity) >= SeverityRank(threshold)

\* C14: whatever the issue list and the threshold label, hasFailingIssues
\* returns what the reference gate does: the label resolves by name to
\* notice, warning or failure, a label that does not resolve (the empty string
\* too) stands for notice; the result is false for no issue, true for any
\* issue at threshold notice, and otherwise true exactly when some issue has a
\* severity at or above the threshold.
C14_GateEqualsReference ==
  applied.called => (applied.result <=> ShouldFail(applied.issues, applied.input))

\* C14's case: hasFailingIssues returned false for a notice and a warning at
\* threshold `failure`.
C14_Witness ==
  /\ applied.called
  /\ applied.input = "failure"
  /\ Len(applied.issues) = 2
  /\ applied.issues[1].Severity = "notice"
  /\ applied.issues[2].Severity = "warning"
  /\ ~applied.result

\* C15: parseOutput throws on every non-empty stdout without `Report`, be it
\* no JSON, an object with no `Issues`, with an empty `Issues` or with issues;
\* a call of printOutput on such a stdout ends at once, without a lintOutput
\* and without a call to the checks API, having marked the run failed with the
\* processing error and nothing else, whatever the exit code.
C15_NoReportFailsRun ==
  \A by \in {"cache", "run"} :
    (po[by].pc # "idle" /\ po[by].res.stdout.text # "" /\ ~po[by].res.stdout.Report) =>
      /\ parseOutput(po[by].res.stdout).threw
      /\ ~parseOutput(po[by].res.stdout).defined
      /\ po[by].pc = "done"
      /\ ~po[by].lintOutput.defined
      /\ \A c \in Range(api) : c.by # by
      /\ Reports(by) = << SetFailed(by, Processing) >>

\* C15's case: on a push `run` exited with 0 and printed an object with an
\* issue and no `Report`; the run was marked failed.
C15_Witness ==
  /\ eventName = "push"
  /\ githubToken
  /\ po["run"].res = [stdout |-> Stdout("json", FALSE, TRUE, << [id |-> 1, Severity |-> "ignore"] >>),
                      code |-> NoCode]
  /\ host = << SetFailed("run", Processing) >>
  /\ pc = "done"

\* C15's case without `Issues`: `run` printed an object with neither `Report`
\* nor `Issues`.
C15_WitnessNoIssues ==
  /\ po["run"].res.stdout = Stdout("json", FALSE, FALSE, <<>>)
  /\ MarkedFailed("run")

\* A path-prefix argument: one or two dashes, with or without a value.
ContainsPathPrefix(args) ==
  \E i \in 1..Len(args) : args[i].name = "path-prefix" /\ args[i].dashes \in {1, 2}

\* Whether runLint added a path-prefix argument to the command started.
PathPrefixInjected ==
  \E i \in 1..Len(RunCommand.addedArgs) : RunCommand.addedArgs[i].name = "path-prefix"

\* C16: when `run` was started with a working directory, runLint added
\* --path-prefix=<working-directory> exactly when the user's args hold no
\* path-prefix argument (--path-prefix or -path-prefix, with or without a
\* value): the command never carries both an added and a user's path-prefix.
C16_PathPrefixInjectedOnlyIfAbsent ==
  (RunSpawned /\ RunCommand.cwd # "") =>
    /\ PathPrefixInjected <=> ~ContainsPathPrefix(RunCommand.userArgs)
    /\ PathPrefixInjected =>
         Arg(2, "path-prefix", TRUE, RunCommand.cwd) \in Range(RunCommand.addedArgs)

\* The ids of the issues of a list, in order.
Ids(issues) == [i \in 1..Len(issues) |-> issues[i].id]

\* C17: the issues of a parsed report are the reported issues whose severity
\* is exactly `ignore`, in order, each with severity `failure`; so when the
\* exit code 1 of `run` has been interpreted, the run is marked failed exactly
\* when such an issue was reported and reported clean otherwise, and the
\* interpretation is the same for every value of `failure-severity`.
C17_ParsedIssuesAreFailures ==
  LET lintOutput == po["run"].lintOutput
      reported == po["run"].res.stdout.Issues
  IN  lintOutput.defined =>
        /\ \A i \in 1..Len(lintOutput.Issues) : lintOutput.Issues[i].Severity = "failure"
        /\ Ids(lintOutput.Issues)
             = Ids(SelectSeq(reported, LAMBDA issue : issue.Severity = "ignore"))
        /\ (po["run"].res.code = 1 /\ Interpreted("run")) =>
             /\ MarkedFailed("run") <=> Len(lintOutput.Issues) > 0
             /\ ReportedClean("run") <=> Len(lintOutput.Issues) = 0
             /\ \A input \in FailureSeverityInputs :
                  Interpret("run", po["run"].res, lintOutput, input) \in Range(host)

\* C17's case: `run` exited with 1 and reported an issue to ignore and an
\* issue of severity `info`; at threshold `failure` the run was marked failed
\* for the one issue retained.
C17_Witness ==
  /\ po["run"].res.code = 1
  /\ Len(po["run"].res.stdout.Issues) = 2
  /\ po["run"].res.stdout.Issues[1].Severity = "info"
  /\ po["run"].res.stdout.Issues[2].Severity = "ignore"
  /\ failureSeverity = "failure"
  /\ po["run"].lintOutput.Issues = << [id |-> 2, Severity |-> "failure"] >>
  /\ host = << SetFailed("run", "issues found") >>

\* C18: whenever a subprocess has been started, `cache status` or `run`, the
\* four tasks of prepareEnv have all resolved (a settled promise never
\* changes, so they had resolved when the subprocess was started).
C18_NoSubprocessBeforePrepared ==
  spawned # <<>> =>
    /\ \A t \in Tasks : promise[t] = "resolved"
    /\ lintStep = "done"
    /\ patchStep = "done"
    /\ env.lintPath = LintPath

\* C18's case: `cache status` and `run` have both been started, with the
\* patch that fetchPatch wrote.
C18_Witness ==
  /\ Len(spawned) = 2
  /\ spawned[1].cmd = "cache status"
  /\ spawned[2].cmd = "run"
  /\ env.patchPath = PatchFile
  /\ Arg(2, "new-from-patch", TRUE, PatchFile) \in Range(spawned[2].addedArgs)

\* C19: the `cache` debug flag does not change the mark. The call of
\* printOutput on the result of `run` does not depend on the flag, so what it
\* reports is what the run without the flag reports: when it reported the run
\* clean with the flag set, nothing has marked the run failed.
C19_CacheFlagKeepsOutcome ==
  (Includes(SplitComma(debug), "cache") /\ po["run"].pc = "done" /\ ReportedClean("run")) =>
    \A report \in Range(host) : report.op # "setFailed"

\* C20: when the call of printOutput on the result of `run` has reported the
\* run clean, the tool exited with 0 (exec resolved: the result carries no
\* code), or it exited with 1 and a report was parsed in which no issue meets
\* the threshold; a result with a null code, of a tool ended by a signal, is
\* not reported clean.
C20_CleanOnlyOnZeroOrNoFailingIssue ==
  ReportedClean("run") =>
    \/ po["run"].res.code = NoCode
    \/ /\ po["run"].res.code = 1
       /\ po["run"].lintOutput.defined
       /\ ~ShouldFail(po["run"].lintOutput.Issues, failureSeverity)

====
